---- MODULE Spec2Model ----
(***************************************************************************)
(* Model of opentelemetry-contrib's CloudTracePropagator                   *)
(* (src/opentelemetry-contrib/src/trace/propagator/gcp.rs).                *)
(*                                                                         *)
(* Text is a sequence of one-character strings.  A 128-bit trace id is a   *)
(* tuple of 32 base-16 limbs, a 64-bit span id a tuple of 20 base-10 limbs *)
(* (most significant first), so that parsing and formatting are real       *)
(* conversions between text and numbers.                                   *)
(***************************************************************************)
EXTENDS Integers, Sequences, FiniteSets, TLC

VARIABLES pc, cx, carrier, sets, before, injects, out, fieldsInit

vars == <<pc, cx, carrier, sets, before, injects, out, fieldsInit>>

(***************************************************************************)
(* Bounds of the model.                                                    *)
(***************************************************************************)
NCallers == 2
MaxInjects == 2
MaxPad == 1

(***************************************************************************)
(* Text helpers.                                                           *)
(***************************************************************************)
HexChars == <<"0", "1", "2", "3", "4", "5", "6", "7", "8", "9",
              "a", "b", "c", "d", "e", "f">>

DecChars == <<"0", "1", "2", "3", "4", "5", "6", "7", "8", "9">>

Whitespace == {" ", "\t"}

Range(s) == {s[i] : i \in 1..Len(s)}

\* position of ch in the digit table t, 0 when absent
PosIn(t, ch) == IF ch \in Range(t) THEN CHOOSE i \in 1..Len(t) : t[i] = ch ELSE 0

\* first index of ch in s, 0 when absent
Find(s, ch) ==
  IF ch \in Range(s)
  THEN CHOOSE i \in 1..Len(s) : s[i] = ch /\ \A j \in 1..(i - 1) : s[j] # ch
  ELSE 0

Rep(ch, n) == [i \in 1..n |-> ch]

\* str::trim: drops leading and trailing whitespace
trim(s) ==
  LET keep == {i \in 1..Len(s) : s[i] \notin Whitespace}
  IN  IF keep = {} THEN <<>>
      ELSE LET lo == CHOOSE i \in keep : \A j \in keep : i <= j
               hi == CHOOSE i \in keep : \A j \in keep : j <= i
           IN  SubSeq(s, lo, hi)

\* str::splitn(2, sep): at most two parts, split at the first sep
splitn2(s, sep) ==
  LET k == Find(s, sep)
  IN  IF k = 0 THEN <<s>>
      ELSE <<SubSeq(s, 1, k - 1), SubSeq(s, k + 1, Len(s))>>

\* slice::get: an Option, <<>> for None and <<v>> for Some(v)
get(parts, i) == IF i + 1 <= Len(parts) THEN <<parts[i + 1]>> ELSE <<>>

(***************************************************************************)
(* u64: str::parse::<u64>() and Display.                                   *)
(***************************************************************************)
U64Max == <<1, 8, 4, 4, 6, 7, 4, 4, 0, 7, 3, 7, 0, 9, 5, 5, 1, 6, 1, 5>>

U64Zero == [i \in 1..Len(U64Max) |-> 0]

\* a <= b for limb tuples of the same length
LimbsLeq(a, b) ==
  \/ a = b
  \/ \E i \in 1..Len(a) : a[i] < b[i] /\ \A j \in 1..(i - 1) : a[j] = b[j]

\* one step of the parse loop: acc * 10 + d, None on overflow
\* (checked_mul followed by checked_add)
MulAdd10(acc, d) ==
  LET r == Append(Tail(acc), d)
  IN  IF acc[1] = 0 /\ LimbsLeq(r, U64Max) THEN <<r>> ELSE <<>>

RECURSIVE ParseDigits(_, _)
ParseDigits(s, acc) ==
  IF s = <<>> THEN <<acc>>
  ELSE LET d == PosIn(DecChars, Head(s))
       IN  IF d = 0 THEN <<>>
           ELSE LET nxt == MulAdd10(acc, d - 1)
                IN  IF nxt = <<>> THEN <<>> ELSE ParseDigits(Tail(s), nxt[1])

\* Result<u64, ParseIntError> as an Option: an optional '+', then at least
\* one decimal digit, the value within 64 bits
parse_u64(s) ==
  IF s = <<>> THEN <<>>
  ELSE LET digits == IF Head(s) = "+" THEN Tail(s) ELSE s
       IN  IF digits = <<>> THEN <<>> ELSE ParseDigits(digits, U64Zero)

\* Display for u64: decimal, no padding
u64_to_string(n) ==
  LET nz == {i \in 1..Len(n) : n[i] # 0}
  IN  IF nz = {} THEN <<"0">>
      ELSE LET lo == CHOOSE i \in nz : \A j \in nz : i <= j
           IN  [i \in 1..(Len(n) - lo + 1) |-> DecChars[n[lo + i - 1] + 1]]

(***************************************************************************)
(* TraceId, SpanContext and Context of the tracing API.                    *)
(***************************************************************************)
TraceIdHexLen == 32

TraceIdZero == [i \in 1..TraceIdHexLen |-> 0]

\* TraceId::from_hex: the 128-bit value of exactly 32 lowercase hex
\* characters; any other text gives the invalid, all-zero id
TraceId_from_hex(hex) ==
  IF Len(hex) = TraceIdHexLen /\ Range(hex) \subseteq Range(HexChars)
  THEN [i \in 1..TraceIdHexLen |-> PosIn(HexChars, hex[i]) - 1]
  ELSE TraceIdZero

\* TraceId::to_hex: 32 lowercase hex characters, zero padded
TraceId_to_hex(t) == [i \in 1..TraceIdHexLen |-> HexChars[t[i] + 1]]

TRACE_FLAG_NOT_SAMPLED == "NotSampled"
TRACE_FLAG_SAMPLED == "Sampled"
TRACE_FLAG_DEFERRED == "Deferred"

TraceState_default == <<>>

SpanContext_new(trace_id, span_id, trace_flags, is_remote, trace_state) ==
  [trace_id |-> trace_id, span_id |-> span_id, trace_flags |-> trace_flags,
   is_remote |-> is_remote, trace_state |-> trace_state]

SpanContext_empty_context ==
  SpanContext_new(TraceIdZero, U64Zero, TRACE_FLAG_NOT_SAMPLED, FALSE,
                  TraceState_default)

\* SpanContext::is_valid: non-zero trace id and non-zero span id
is_valid(sc) == sc.trace_id # TraceIdZero /\ sc.span_id # U64Zero

is_deferred(sc) == sc.trace_flags = TRACE_FLAG_DEFERRED

is_sampled(sc) == sc.trace_flags = TRACE_FLAG_SAMPLED

\* cx.span().span_context(): the span-context slot of a Context
span_context(c) == c.span_context

\* Context::with_remote_span_context: a new Context derived from c whose
\* span-context slot holds sc; the other slots are kept
with_remote_span_context(c, sc) == [c EXCEPT !.span_context = sc]

(***************************************************************************)
(* Carriers: a map from keys to an optional value.  An injector also keeps *)
(* the list of set calls made on it.                                       *)
(***************************************************************************)
GCP_CLOUD_TRACE_HEADER == "x-cloud-trace-context"

GCP_CLOUD_TRACE_HEADER_FIELD == <<GCP_CLOUD_TRACE_HEADER>>

OtherKey == "content-type"

Keys == {GCP_CLOUD_TRACE_HEADER, OtherKey}

Extractor_get(extractor, key) == extractor[key]

Injector_set(injector, key, value) ==
  [map  |-> [injector.map EXCEPT ![key] = <<value>>],
   sets |-> Append(injector.sets, <<key, value>>)]

unwrap_or(opt, default) == IF opt = <<>> THEN default ELSE opt[1]

(***************************************************************************)
(* CloudTracePropagator.                                                   *)
(***************************************************************************)
\* variant: a suffix that starts with the literal is taken for the literal
sampling_decision_of_Prefix(rest) ==
  IF rest # <<>> /\ Len(rest[1]) >= 3 /\ SubSeq(rest[1], 1, 3) = <<"o", "=", "0">>
  THEN TRACE_FLAG_NOT_SAMPLED
  ELSE IF rest # <<>> /\ Len(rest[1]) >= 3 /\ SubSeq(rest[1], 1, 3) = <<"o", "=", "1">>
  THEN TRACE_FLAG_SAMPLED
  ELSE TRACE_FLAG_DEFERRED

\* the sampling decision of the text after the first ';' (an Option)
sampling_decision_of(rest) ==
  IF rest = <<<<"o", "=", "0">>>> THEN TRACE_FLAG_NOT_SAMPLED
  ELSE IF rest = <<<<"o", "=", "1">>>> THEN TRACE_FLAG_SAMPLED
  ELSE TRACE_FLAG_DEFERRED

\* variant: the check of a zero trace id is left out
extract_span_context_NoZeroCheck(extractor) ==
  LET header_value ==
        trim(unwrap_or(Extractor_get(extractor, GCP_CLOUD_TRACE_HEADER), <<>>))
      parts == splitn2(header_value, "/")
      trace_id == TraceId_from_hex(get(parts, 0)[1])
      rest == get(parts, 1)
  IN  IF rest = <<>> THEN <<>>
      ELSE LET parts2 == splitn2(rest[1], ";")
               parsed == parse_u64(get(parts2, 0)[1])
           IN  IF parsed = <<>> THEN <<>>
               ELSE <<SpanContext_new(trace_id, parsed[1],
                                      sampling_decision_of(get(parts2, 1)),
                                      TRUE, TraceState_default)>>

\* variant: a span id that does not parse is taken as 0
extract_span_context_SpanDefault(extractor) ==
  LET header_value ==
        trim(unwrap_or(Extractor_get(extractor, GCP_CLOUD_TRACE_HEADER), <<>>))
      parts == splitn2(header_value, "/")
      trace_id == TraceId_from_hex(get(parts, 0)[1])
      rest == get(parts, 1)
  IN  IF rest = <<>> THEN <<>>
      ELSE LET parts2 == splitn2(rest[1], ";")
               parsed == unwrap_or(parse_u64(get(parts2, 0)[1]), U64Zero)
           IN  IF trace_id = TraceIdZero THEN <<>>
               ELSE <<SpanContext_new(trace_id, parsed,
                                      sampling_decision_of(get(parts2, 1)),
                                      TRUE, TraceState_default)>>

\* Result<SpanContext, ()>: <<>> for Err(()), <<sc>> for Ok(sc)
extract_span_context(extractor) ==
  LET header_value ==
        trim(unwrap_or(Extractor_get(extractor, GCP_CLOUD_TRACE_HEADER), <<>>))
      parts == splitn2(header_value, "/")
      trace_id == TraceId_from_hex(get(parts, 0)[1])
      rest == get(parts, 1)
  IN  IF rest = <<>> THEN <<>>
      ELSE LET parts2 == splitn2(rest[1], ";")
               parsed == parse_u64(get(parts2, 0)[1])
           IN  IF parsed = <<>> THEN <<>>
               ELSE IF trace_id = TraceIdZero THEN <<>>
               ELSE <<SpanContext_new(trace_id, parsed[1],
                                      sampling_decision_of(get(parts2, 1)),
                                      TRUE, TraceState_default)>>

\* variant: the two ids in the other order
format_header_SpanFirst(trace_id, span_id, sampling_decision) ==
  u64_to_string(span_id) \o <<"/">> \o trace_id \o <<";">> \o sampling_decision

\* format!("{}/{};{}", trace_id, span_id, sampling_decision)
format_header(trace_id, span_id, sampling_decision) ==
  trace_id \o <<"/">> \o u64_to_string(span_id) \o <<";">> \o sampling_decision

\* variant: the decisions of Sampled and NotSampled exchanged
inject_context_SwappedDecision(c, injector) ==
  LET sc == span_context(c)
  IN  IF is_valid(sc)
      THEN LET sampling_decision ==
                 IF is_deferred(sc) THEN <<>>
                 ELSE IF is_sampled(sc) THEN <<"o", "=", "0">>
                 ELSE <<"o", "=", "1">>
           IN  Injector_set(injector, GCP_CLOUD_TRACE_HEADER,
                            format_header(TraceId_to_hex(sc.trace_id), sc.span_id,
                                          sampling_decision))
      ELSE injector

\* variant: no branch for Deferred
inject_context_DeferredAsNotSampled(c, injector) ==
  LET sc == span_context(c)
  IN  IF is_valid(sc)
      THEN LET sampling_decision ==
                 IF is_sampled(sc) THEN <<"o", "=", "1">> ELSE <<"o", "=", "0">>
           IN  Injector_set(injector, GCP_CLOUD_TRACE_HEADER,
                            format_header(TraceId_to_hex(sc.trace_id), sc.span_id,
                                          sampling_decision))
      ELSE injector

\* variant: the header is written whether or not the span context is valid
inject_context_NoValidCheck(c, injector) ==
  LET sc == span_context(c)
      sampling_decision ==
        IF is_deferred(sc) THEN <<>>
        ELSE IF is_sampled(sc) THEN <<"o", "=", "1">>
        ELSE <<"o", "=", "0">>
  IN  Injector_set(injector, GCP_CLOUD_TRACE_HEADER,
                   format_header(TraceId_to_hex(sc.trace_id), sc.span_id,
                                 sampling_decision))

\* variant: the header is appended to the value the carrier holds
inject_context_Append(c, injector) ==
  LET sc == span_context(c)
  IN  IF is_valid(sc)
      THEN LET sampling_decision ==
                 IF is_deferred(sc) THEN <<>>
                 ELSE IF is_sampled(sc) THEN <<"o", "=", "1">>
                 ELSE <<"o", "=", "0">>
               prior == injector.map[GCP_CLOUD_TRACE_HEADER]
               value == format_header(TraceId_to_hex(sc.trace_id), sc.span_id,
                                      sampling_decision)
           IN  Injector_set(injector, GCP_CLOUD_TRACE_HEADER,
                            IF prior = <<>> THEN value
                            ELSE prior[1] \o <<",">> \o value)
      ELSE injector

inject_context(c, injector) ==
  LET sc == span_context(c)
  IN  IF is_valid(sc)
      THEN LET trace_id == TraceId_to_hex(sc.trace_id)
               span_id == sc.span_id
               sampling_decision ==
                 IF is_deferred(sc) THEN <<>>
                 ELSE IF is_sampled(sc) THEN <<"o", "=", "1">>
                 ELSE <<"o", "=", "0">>
           IN  Injector_set(injector, GCP_CLOUD_TRACE_HEADER,
                            format_header(trace_id, span_id, sampling_decision))
      ELSE injector

\* variant: the input context is returned as it is when decoding fails
extract_with_context_KeepOnError(c, extractor) ==
  LET r == extract_span_context(extractor)
  IN  IF r = <<>> THEN c ELSE with_remote_span_context(c, r[1])

extract_with_context(c, extractor) ==
  LET extracted ==
        unwrap_or(extract_span_context(extractor), SpanContext_empty_context)
  IN  with_remote_span_context(c, extracted)

\* fields(): the first use initialises the lazy static, later uses read it
fields_cell(cell) == IF cell = <<>> THEN <<GCP_CLOUD_TRACE_HEADER_FIELD>> ELSE cell

(***************************************************************************)
(* Inputs.                                                                 *)
(***************************************************************************)
Procs == 1..NCallers

\* 0x105445aa7843bc8bf206b12000100000
TidA == <<1, 0, 5, 4, 4, 5, 10, 10, 7, 8, 4, 3, 11, 12, 8, 11,
          15, 2, 0, 6, 11, 1, 2, 0, 0, 0, 1, 0, 0, 0, 0, 0>>

\* the trace id whose value is n, 1 <= n <= 15
TidSmall(n) == [i \in 1..TraceIdHexLen |-> IF i = TraceIdHexLen THEN n ELSE 0]

U64Of(d) == [i \in 1..Len(U64Max) |-> IF i = Len(U64Max) THEN d ELSE 0]

TraceIds == {TraceIdZero, TidA, TidSmall(1)}

SpanIds == {U64Zero, U64Of(1), U64Max}

TraceFlags == {TRACE_FLAG_NOT_SAMPLED, TRACE_FLAG_SAMPLED, TRACE_FLAG_DEFERRED}

NewContext(sc) == [span_context |-> sc, other |-> "baggage"]

Contexts ==
  {NewContext(SpanContext_new(t, s, f, FALSE, TraceState_default)) :
     t \in TraceIds, s \in SpanIds, f \in TraceFlags}

SmallContexts ==
  {NewContext(SpanContext_empty_context),
   NewContext(SpanContext_new(TidSmall(1), U64Max, TRACE_FLAG_DEFERRED, TRUE,
                              TraceState_default))}

\* the contexts of caller c: their trace ids are c's own
ContextsOf(c) ==
  {NewContext(SpanContext_new(TidSmall(c), U64Of(1), f, FALSE, TraceState_default)) :
     f \in TraceFlags}
  \cup {NewContext(SpanContext_new(TidSmall(c), U64Zero, TRACE_FLAG_SAMPLED, FALSE,
                                   TraceState_default))}

HexA == TraceId_to_hex(TidA)

TraceFields ==
  {HexA,
   TraceId_to_hex(TidSmall(1)),
   TraceId_to_hex(TraceIdZero),
   <<"0", "0", "f", "0", "6", "7", "a", "a", "0", "b", "a", "9", "0", "2", "b", "7">>,
   HexA \o <<"0">>,
   <<"0">> \o HexA,
   [HexA EXCEPT ![TraceIdHexLen] = "g"],
   [i \in 1..TraceIdHexLen |-> IF HexA[i] = "a" THEN "A" ELSE HexA[i]],
   <<>>}

SpanFields ==
  {<<"0">>, <<"1">>, <<"0", "0", "7">>, <<"+", "5">>, <<"+">>, <<"-", "1">>,
   <<"1", "a">>, <<"1", " ", "2">>, <<>>,
   u64_to_string(U64Max),
   <<"1", "8", "4", "4", "6", "7", "4", "4", "0", "7", "3", "7", "0", "9",
     "5", "5", "1", "6", "1", "6">>,
   Rep("0", Len(U64Max)) \o <<"9">>}

Suffixes ==
  {<<>>, <<";">>, <<";", "o", "=", "0">>, <<";", "o", "=", "1">>,
   <<";", "x", "=", "9">>, <<";", "o", "=", "1", ";">>,
   <<";", "O", "=", "1">>, <<";", " ", "o", "=", "1">>}

Pad(h, l, r) == Rep(" ", l) \o h \o Rep("\t", r)

CoreHeaders ==
  {HexA \o <<"/", "1">>, HexA \o <<"/", "1", ";", "o", "=", "1">>,
   TraceId_to_hex(TraceIdZero) \o <<"/", "1", ";", "o", "=", "1">>}

\* header values a carrier may hold under x-cloud-trace-context
Headers ==
  {t \o <<"/">> \o s \o x : t \in TraceFields, s \in SpanFields, x \in Suffixes}
  \cup {Pad(h, l, r) : h \in CoreHeaders, l \in 0..MaxPad, r \in 0..MaxPad}
  \cup {<<>>, <<" ">>, <<"a", "b", "c">>, HexA, HexA \o <<";", "o", "=", "1">>,
        <<"/">>, HexA \o <<"/">>}

\* the optional header of a carrier: absent, or one of the values
OptHeaders == {<<>>} \cup {<<h>> : h \in Headers}

SmallOptHeaders ==
  {<<>>, <<<<"a", "b", "c">>>>,
   <<TraceId_to_hex(TidSmall(2)) \o <<"/", "9", ";", "o", "=", "0">>>>}

NewCarrier(h) ==
  [k \in Keys |-> IF k = GCP_CLOUD_TRACE_HEADER THEN h
                  ELSE <<<<"t", "e", "x", "t">>>>]

NoContext == <<>>

(***************************************************************************)
(* The callers of the propagator.                                          *)
(***************************************************************************)
Init ==
  /\ pc = [c \in Procs |-> "idle"]
  /\ cx = [c \in Procs |-> NewContext(SpanContext_empty_context)]
  /\ carrier = [c \in Procs |-> NewCarrier(<<>>)]
  /\ before = [c \in Procs |-> NewCarrier(<<>>)]
  /\ sets = [c \in Procs |-> <<>>]
  /\ injects = [c \in Procs |-> 0]
  /\ out = [c \in Procs |-> NoContext]
  /\ fieldsInit = <<>>

\* caller c takes a context and a carrier
Begin(c, ctx, h) ==
  /\ pc[c] = "idle"
  /\ pc' = [pc EXCEPT ![c] = "ready"]
  /\ cx' = [cx EXCEPT ![c] = ctx]
  /\ carrier' = [carrier EXCEPT ![c] = NewCarrier(h)]
  /\ before' = [before EXCEPT ![c] = NewCarrier(h)]
  /\ sets' = [sets EXCEPT ![c] = <<>>]
  /\ injects' = [injects EXCEPT ![c] = 0]
  /\ out' = [out EXCEPT ![c] = NoContext]
  /\ UNCHANGED fieldsInit

\* propagator.inject_context(&cx, &mut carrier)
Inject(c) ==
  /\ pc[c] \in {"ready", "injected"}
  /\ injects[c] < MaxInjects
  /\ LET r == inject_context(cx[c], [map |-> carrier[c], sets |-> <<>>])
     IN  /\ carrier' = [carrier EXCEPT ![c] = r.map]
         /\ sets' = [sets EXCEPT ![c] = r.sets]
  /\ before' = [before EXCEPT ![c] = carrier[c]]
  /\ injects' = [injects EXCEPT ![c] = @ + 1]
  /\ pc' = [pc EXCEPT ![c] = "injected"]
  /\ UNCHANGED <<cx, out, fieldsInit>>

\* propagator.extract_with_context(&cx, &carrier)
Extract(c) ==
  /\ pc[c] \in {"ready", "injected", "reinjected"}
  /\ out' = [out EXCEPT ![c] = <<extract_with_context(cx[c], carrier[c])>>]
  /\ pc' = [pc EXCEPT ![c] = IF pc[c] = "reinjected" THEN "reextracted"
                             ELSE "extracted"]
  /\ UNCHANGED <<cx, carrier, before, sets, injects, fieldsInit>>

\* the caller propagates the context it extracted: inject_context of that
\* context into a new, empty carrier
Repropagate(c) ==
  /\ pc[c] = "extracted"
  /\ LET r == inject_context(out[c][1], [map |-> NewCarrier(<<>>), sets |-> <<>>])
     IN  /\ carrier' = [carrier EXCEPT ![c] = r.map]
         /\ sets' = [sets EXCEPT ![c] = r.sets]
  /\ cx' = [cx EXCEPT ![c] = out[c][1]]
  /\ before' = [before EXCEPT ![c] = NewCarrier(<<>>)]
  /\ injects' = [injects EXCEPT ![c] = 1]
  /\ out' = [out EXCEPT ![c] = NoContext]
  /\ pc' = [pc EXCEPT ![c] = "reinjected"]
  /\ UNCHANGED fieldsInit

\* propagator.fields()
Fields(c) ==
  /\ fieldsInit' = fields_cell(fieldsInit)
  /\ UNCHANGED <<pc, cx, carrier, before, sets, injects, out>>

\* the caller drops its context and carrier
Finish(c) ==
  /\ pc[c] \in {"extracted", "reextracted"}
  /\ pc' = [pc EXCEPT ![c] = "idle"]
  /\ cx' = [cx EXCEPT ![c] = NewContext(SpanContext_empty_context)]
  /\ carrier' = [carrier EXCEPT ![c] = NewCarrier(<<>>)]
  /\ before' = [before EXCEPT ![c] = NewCarrier(<<>>)]
  /\ sets' = [sets EXCEPT ![c] = <<>>]
  /\ injects' = [injects EXCEPT ![c] = 0]
  /\ out' = [out EXCEPT ![c] = NoContext]
  /\ UNCHANGED fieldsInit

\* one caller, over every context and header
Next ==
  \/ \E ctx \in Contexts, h \in SmallOptHeaders : Begin(1, ctx, h)
  \/ \E ctx \in SmallContexts, h \in OptHeaders : Begin(1, ctx, h)
  \/ Inject(1)
  \/ Extract(1)
  \/ Repropagate(1)
  \/ Fields(1)
  \/ Finish(1)

Spec == Init /\ [][Next]_vars

\* every caller, each with contexts of its own, in any interleaving
NextConc ==
  \E c \in Procs :
    \/ \E ctx \in ContextsOf(c) : Begin(c, ctx, <<>>)
    \/ Inject(c)
    \/ Extract(c)
    \/ Fields(c)
    \/ Finish(c)

SpecConc == Init /\ [][NextConc]_vars

(***************************************************************************)
(* Vocabulary of the properties: the header grammar, stated on the text.   *)
(***************************************************************************)
Injected(c) == pc[c] \in {"injected", "reinjected"}

Extracted(c) == pc[c] \in {"extracted", "reextracted"}

\* the span context of the context the last extract returned
OutSc(c) == out[c][1].span_context

InSc(c) == cx[c].span_context

DecodeFailed(c) == OutSc(c) = SpanContext_empty_context

\* the header the extractor reads: the value under the key, trimmed
HeaderValue(c) ==
  IF carrier[c][GCP_CLOUD_TRACE_HEADER] = <<>> THEN <<>>
  ELSE trim(carrier[c][GCP_CLOUD_TRACE_HEADER][1])

HasSlash(h) == "/" \in Range(h)

\* the text before the first '/'
TraceField(h) == IF HasSlash(h) THEN SubSeq(h, 1, Find(h, "/") - 1) ELSE h

\* the text after the first '/'
AfterSlash(h) == SubSeq(h, Find(h, "/") + 1, Len(h))

\* the text between the first '/' and the first following ';'
SpanField(h) ==
  LET a == AfterSlash(h)
  IN  IF ";" \in Range(a) THEN SubSeq(a, 1, Find(a, ";") - 1) ELSE a

\* the text after the first ';' that follows the first '/': <<>> when there
\* is no ';', else <<text>>
SuffixText(h) ==
  LET a == AfterSlash(h)
  IN  IF ";" \in Range(a) THEN <<SubSeq(a, Find(a, ";") + 1, Len(a))>> ELSE <<>>

Is32LowerHex(s) == Len(s) = 32 /\ \A i \in 1..Len(s) : s[i] \in Range(HexChars)

AllZeroHex(s) == \A i \in 1..Len(s) : s[i] = "0"

\* s is a decimal integer in 0..2^64-1: an optional '+', at least one digit,
\* and, leading zeros apart, fewer digits than 2^64-1 or as many and not
\* beyond it
IsU64Decimal(s) ==
  LET d == IF s # <<>> /\ s[1] = "+" THEN Tail(s) ELSE s
      sig == {i \in 1..Len(d) : d[i] # "0"}
      lo == IF sig = {} THEN Len(d) + 1 ELSE CHOOSE i \in sig : \A j \in sig : i <= j
      n == Len(d) - lo + 1
      MaxText == u64_to_string(U64Max)
  IN  /\ d # <<>>
      /\ \A i \in 1..Len(d) : d[i] \in Range(DecChars)
      /\ \/ n < Len(MaxText)
         \/ /\ n = Len(MaxText)
            /\ \/ \A i \in 1..n : d[lo + i - 1] = MaxText[i]
               \/ \E i \in 1..n :
                    /\ PosIn(DecChars, d[lo + i - 1]) < PosIn(DecChars, MaxText[i])
                    /\ \A j \in 1..(i - 1) : d[lo + j - 1] = MaxText[j]

\* the header is one the grammar accepts
WellFormed(h) ==
  /\ HasSlash(h)
  /\ Is32LowerHex(TraceField(h))
  /\ ~AllZeroHex(TraceField(h))
  /\ IsU64Decimal(SpanField(h))

\* same trace id, span id and sampling decision (is_remote and trace_state
\* are not compared)
SameWire(a, b) ==
  /\ a.trace_id = b.trace_id
  /\ a.span_id = b.span_id
  /\ a.trace_flags = b.trace_flags

EmptyInjector == [map |-> NewCarrier(<<>>), sets |-> <<>>]

(***************************************************************************)
(* Properties.                                                             *)
(***************************************************************************)

\* C1 as stated: for every span context with a non-zero trace id, any span
\* id and a decision in {Sampled, NotSampled}, inject followed by extract
\* yields the same trace id, span id and decision.
C1_RoundTripAnySpanId ==
  \A c \in Procs :
    (/\ pc[c] = "extracted"
     /\ injects[c] >= 1
     /\ InSc(c).trace_id # TraceIdZero
     /\ InSc(c).trace_flags \in {TRACE_FLAG_SAMPLED, TRACE_FLAG_NOT_SAMPLED})
    => SameWire(OutSc(c), InSc(c))

\* C1 amended: for every valid span context (non-zero trace id and non-zero
\* span id) with a decision in {Sampled, NotSampled}, inject followed by
\* extract yields the same trace id, span id and decision.
C1_RoundTripValid ==
  \A c \in Procs :
    (/\ pc[c] = "extracted"
     /\ injects[c] >= 1
     /\ InSc(c).trace_id # TraceIdZero
     /\ InSc(c).span_id # U64Zero
     /\ InSc(c).trace_flags \in {TRACE_FLAG_SAMPLED, TRACE_FLAG_NOT_SAMPLED})
    => SameWire(OutSc(c), InSc(c))

C1_Witness ==
  \E c \in Procs :
    /\ pc[c] = "extracted"
    /\ injects[c] >= 1
    /\ InSc(c).trace_id = TidA
    /\ InSc(c).span_id = U64Max
    /\ InSc(c).trace_flags = TRACE_FLAG_NOT_SAMPLED
    /\ ~InSc(c).is_remote
    /\ OutSc(c).is_remote
    /\ SameWire(OutSc(c), InSc(c))

\* C2: after inject of a valid span context the header is exactly
\* <trace id hex>/<span id decimal> with no ';' when the decision is
\* Deferred, and ends in ";o=1" for Sampled and ";o=0" for NotSampled.
C2_NoTrailingSeparator ==
  \A c \in Procs :
    (Injected(c) /\ is_valid(InSc(c))) =>
      LET v == carrier[c][GCP_CLOUD_TRACE_HEADER][1]
          ids == TraceId_to_hex(InSc(c).trace_id) \o <<"/">>
                   \o u64_to_string(InSc(c).span_id)
      IN  /\ InSc(c).trace_flags = TRACE_FLAG_DEFERRED =>
               v = ids /\ ";" \notin Range(v)
          /\ InSc(c).trace_flags = TRACE_FLAG_SAMPLED =>
               v = ids \o <<";", "o", "=", "1">>
          /\ InSc(c).trace_flags = TRACE_FLAG_NOT_SAMPLED =>
               v = ids \o <<";", "o", "=", "0">>

C4_ExtractNeverFails ==
  \A c \in Procs :
    Extracted(c) =>
      /\ Len(out[c]) = 1
      /\ out[c][1].other = cx[c].other
      /\ extract_span_context(carrier[c]) = <<>> =>
           OutSc(c) = SpanContext_empty_context
      /\ extract_span_context(carrier[c]) # <<>> =>
           /\ OutSc(c) = extract_span_context(carrier[c])[1]
           /\ OutSc(c) # SpanContext_empty_context

C4_Witness ==
  \E c \in Procs :
    /\ Extracted(c)
    /\ carrier[c][GCP_CLOUD_TRACE_HEADER] # <<>>
    /\ ~HasSlash(HeaderValue(c))
    /\ is_valid(InSc(c))
    /\ OutSc(c) = SpanContext_empty_context

\* C5: inject makes no carrier write and leaves the carrier as it was when
\* the span context is invalid; it makes exactly one write, under
\* x-cloud-trace-context, and changes no other key when it is valid.
C5_InjectWrites ==
  \A c \in Procs :
    Injected(c) =>
      /\ ~is_valid(InSc(c)) => sets[c] = <<>> /\ carrier[c] = before[c]
      /\ is_valid(InSc(c)) =>
           /\ Len(sets[c]) = 1
           /\ sets[c][1][1] = GCP_CLOUD_TRACE_HEADER
           /\ carrier[c][GCP_CLOUD_TRACE_HEADER] = <<sets[c][1][2]>>
           /\ \A k \in Keys \ {GCP_CLOUD_TRACE_HEADER} :
                carrier[c][k] = before[c][k]

C5_Witness ==
  \E c \in Procs :
    /\ pc[c] = "injected"
    /\ InSc(c).trace_id = TraceIdZero
    /\ InSc(c).span_id # U64Zero
    /\ before[c][GCP_CLOUD_TRACE_HEADER] # <<>>
    /\ sets[c] = <<>>
    /\ carrier[c] = before[c]

\* C6: for every header that decodes, the decision is that of the text
\* after the first ';' of the part following '/': "o=0" NotSampled, "o=1"
\* Sampled, anything else or no ';' Deferred.
C6_DecisionFromSuffix ==
  \A c \in Procs :
    (Extracted(c) /\ ~DecodeFailed(c)) =>
      LET x == SuffixText(HeaderValue(c))
      IN  OutSc(c).trace_flags =
            IF x = <<<<"o", "=", "0">>>> THEN TRACE_FLAG_NOT_SAMPLED
            ELSE IF x = <<<<"o", "=", "1">>>> THEN TRACE_FLAG_SAMPLED
            ELSE TRACE_FLAG_DEFERRED

C6_Witness ==
  \E c \in Procs :
    /\ pc[c] = "extracted"
    /\ ~DecodeFailed(c)
    /\ SuffixText(HeaderValue(c)) = <<<<"o", "=", "1", ";">>>>
    /\ OutSc(c).trace_flags = TRACE_FLAG_DEFERRED

\* C7: decode fails for every header that has no '/', or whose trace id is
\* all zero, or whose span-id field is not a decimal integer in 0..2^64-1.
C7_DecodeFailures ==
  \A c \in Procs :
    (/\ Extracted(c)
     /\ \/ ~HasSlash(HeaderValue(c))
        \/ AllZeroHex(TraceField(HeaderValue(c)))
        \/ ~IsU64Decimal(SpanField(HeaderValue(c))))
    => DecodeFailed(c)

C7_Witness ==
  \E c \in Procs :
    /\ Extracted(c)
    /\ Is32LowerHex(TraceField(HeaderValue(c)))
    /\ ~AllZeroHex(TraceField(HeaderValue(c)))
    /\ Len(SpanField(HeaderValue(c))) = Len(U64Max)
    /\ \A i \in 1..Len(SpanField(HeaderValue(c))) :
         SpanField(HeaderValue(c))[i] \in Range(DecChars)
    /\ ~IsU64Decimal(SpanField(HeaderValue(c)))
    /\ DecodeFailed(c)

\* C8: after inject of a valid context the key holds the value encoded from
\* that context whatever it held before, and a second inject of the same
\* context leaves the carrier as the first left it.
C8_InjectIdempotent ==
  \A c \in Procs :
    (pc[c] = "injected" /\ is_valid(InSc(c))) =>
      /\ carrier[c][GCP_CLOUD_TRACE_HEADER] =
           inject_context(cx[c], EmptyInjector).map[GCP_CLOUD_TRACE_HEADER]
      /\ carrier[c][GCP_CLOUD_TRACE_HEADER] # <<>>
      /\ injects[c] >= 2 => carrier[c] = before[c]

C8_Witness ==
  \E c \in Procs :
    /\ pc[c] = "injected"
    /\ injects[c] = 2
    /\ is_valid(InSc(c))
    /\ carrier[c] = before[c]
    /\ TraceField(HeaderValue(c)) = TraceId_to_hex(InSc(c).trace_id)

\* C9: with several callers, each on its own carrier with its own context,
\* in every interleaving each caller extracts the span context it injected,
\* and the shared field list, once initialised, is the one-element list
\* of x-cloud-trace-context.
C9_NoInterference ==
  /\ fieldsInit \in {<<>>, <<<<GCP_CLOUD_TRACE_HEADER>>>>}
  /\ \A c \in Procs :
       (pc[c] = "extracted" /\ injects[c] >= 1 /\ is_valid(InSc(c))) =>
         /\ SameWire(OutSc(c), InSc(c))
         /\ \A d \in Procs \ {c} :
              Extracted(d) /\ ~DecodeFailed(d) /\ injects[d] >= 1 /\ is_valid(InSc(d))
              => OutSc(d).trace_id # OutSc(c).trace_id

C9_Witness ==
  /\ fieldsInit # <<>>
  /\ \A c \in Procs :
       /\ pc[c] = "extracted"
       /\ injects[c] >= 1
       /\ is_valid(InSc(c))
       /\ SameWire(OutSc(c), InSc(c))
  /\ \E c, d \in Procs : InSc(c).trace_flags # InSc(d).trace_flags

\* C10 as stated: for every header that decodes, span id 0 and Deferred
\* included, inject of the extracted span context into an empty carrier
\* writes a header, and extract from that carrier yields the same trace id,
\* span id and decision.
C10_RepropagationAny ==
  \A c \in Procs :
    /\ (pc[c] = "reinjected" /\ InSc(c) # SpanContext_empty_context) =>
         carrier[c][GCP_CLOUD_TRACE_HEADER] # <<>>
    /\ (pc[c] = "reextracted" /\ InSc(c) # SpanContext_empty_context) =>
         SameWire(OutSc(c), InSc(c))

\* C10 amended: for every header that decodes with a non-zero span id,
\* Deferred included, inject of the extracted span context into an empty
\* carrier writes a header and extract from it yields the same trace id,
\* span id and decision; when the decoded span id is 0 inject writes nothing
\* and the second extract yields the empty span context.
C10_RepropagationValid ==
  \A c \in Procs :
    /\ (pc[c] = "reinjected" /\ InSc(c) # SpanContext_empty_context) =>
         IF InSc(c).span_id # U64Zero
         THEN carrier[c][GCP_CLOUD_TRACE_HEADER] # <<>> /\ Len(sets[c]) = 1
         ELSE carrier[c] = NewCarrier(<<>>) /\ sets[c] = <<>>
    /\ (pc[c] = "reextracted" /\ InSc(c) # SpanContext_empty_context) =>
         IF InSc(c).span_id # U64Zero
         THEN SameWire(OutSc(c), InSc(c))
         ELSE OutSc(c) = SpanContext_empty_context

C10_Witness ==
  \E c \in Procs :
    /\ pc[c] = "reextracted"
    /\ InSc(c).is_remote
    /\ InSc(c).trace_flags = TRACE_FLAG_DEFERRED
    /\ InSc(c).span_id = U64Max
    /\ SameWire(OutSc(c), InSc(c))

====
